---- MODULE Spec2Model ----
(***************************************************************************)
(* Model of the Handshake crate (src/src/lib.rs): a pair of handles        *)
(* sharing one Arc<RwLock<Option<T>>>, with try_push, try_pull, join,      *)
(* is_set and drop, and of the collision_check stress test.                *)
(***************************************************************************)
EXTENDS Naturals, Integers, Sequences, FiniteSets, TLC

VARIABLES
    slot,       \* slot[p]: content of the RwLock's Option<T>: <<>> or <<x>>
    rc,         \* rc[p]: strong count of the Arc
    writer,     \* writer[p]: sides holding the write guard of the RwLock
    readers,    \* readers[p]: sides holding a read guard of the RwLock
    poisoned,   \* poisoned[p]: a writer panicked while holding the guard
    hstate,     \* hstate[h]: Fresh | Dropped | Consumed | Forgotten
    pc,         \* pc[h]: idle | lock | lock2 | cs | unlock | ret | lent
    op,         \* op[h]: the operation in progress, or the last one
    arg,        \* arg[h]: the value passed to try_push / join
    res,        \* res[h]: the outcome the operation returned
    obs,        \* obs[h]: what the operation saw when it took the lock (back:
                \* an earlier try_pull handed this handle back)
    writes,     \* writes[p]: number of values ever written to the slot
    taken,      \* taken[p]: a value has been taken out of the slot
    wk          \* wk[s]: the worker threads of collision_check

vars == <<slot, rc, writer, readers, poisoned, hstate, pc, op, arg, res, obs,
          writes, taken, wk>>

\* ---------------------------------------------------------------- bounds
MaxVal == 2
N == 2

Values == 1..MaxVal
Sides == {"u", "v"}

\* ---------------------------------------------------------------- helpers
None == <<>>
Some(x) == <<x>>
is_none(c) == c = None
is_some(c) == c # None

Other(s) == IF s = "u" THEN "v" ELSE "u"
Peer(h) == <<h[1], Other(h[2])>>
Handles == DOMAIN hstate
Pairs == DOMAIN slot

R(tag, val) == [tag |-> tag, val |-> val]

\* the combining closure of join_test / collision_check / main: |x, y| (x, y)
f(x, y) == <<x, y>>

\* ---------------------------------------------------------------- state after Handshake::new()
new(ps) ==
    /\ slot = [p \in ps |-> None]
    /\ rc = [p \in ps |-> 2]
    /\ writer = [p \in ps |-> {}]
    /\ readers = [p \in ps |-> {}]
    /\ poisoned = [p \in ps |-> FALSE]
    /\ hstate = [h \in ps \X Sides |-> "Fresh"]
    /\ pc = [h \in ps \X Sides |-> "idle"]
    /\ op = [h \in ps \X Sides |-> "none"]
    /\ arg = [h \in ps \X Sides |-> None]
    /\ res = [h \in ps \X Sides |-> R("none", None)]
    /\ obs = [h \in ps \X Sides |->
                [slot |-> None, peer |-> "Fresh", post |-> None, hs |-> "Fresh",
                 f |-> FALSE, back |-> FALSE]]
    /\ writes = [p \in ps |-> 0]
    /\ taken = [p \in ps |-> FALSE]

NoWorkers == [s \in Sides |-> [order |-> <<>>, idx |-> 0, st |-> "off", count |-> 0]]

Init == new({1}) /\ wk = NoWorkers

\* ---------------------------------------------------------------- critical sections
\* Each operator gives what the code does between taking the guard and
\* returning: panic (the assert! failed), the slot's new content, the value
\* returned, and hs, what becomes of `self`.

\* try_push without the assert!: a deposit onto a full slot replaces the value
try_push_overwrite(h) ==
    [panic |-> FALSE, slot |-> arg[h], ret |-> R("OkOk", None), hs |-> "Forgotten"]

\* try_push that first looks at the Arc's count and hands the value back
\* when the peer is gone
try_push_peer_check(h) ==
    LET common == slot[h[1]] IN
    IF rc[h[1]] < 2
    THEN [panic |-> FALSE, slot |-> common, ret |-> R("Err", arg[h]), hs |-> "Consumed"]
    ELSE IF ~is_none(common)
         THEN [panic |-> TRUE, slot |-> common, ret |-> R("Panic", None), hs |-> "Consumed"]
         ELSE [panic |-> FALSE, slot |-> arg[h], ret |-> R("OkOk", None), hs |-> "Forgotten"]

\* try_push: assert!(common.is_none()); common.replace(value);
\* drop(common); mem::forget(self); Ok(Ok(()))
try_push(h) ==
    LET common == slot[h[1]] IN
    IF ~is_none(common)
    THEN [panic |-> TRUE, slot |-> common, ret |-> R("Panic", None), hs |-> "Consumed"]
    ELSE [panic |-> FALSE, slot |-> arg[h], ret |-> R("OkOk", None), hs |-> "Forgotten"]

\* try_pull: assert!(common.is_none()); if let Some(res) = common.take()
\* { Ok(Ok(res)) } else { drop(common); Ok(Err(self)) }
try_pull(h) ==
    LET common == slot[h[1]] IN
    IF ~is_none(common)
    THEN [panic |-> TRUE, slot |-> common, ret |-> R("Panic", None), hs |-> "Consumed"]
    ELSE IF is_some(common)
         THEN [panic |-> FALSE, slot |-> None, ret |-> R("OkOk", common), hs |-> "Consumed"]
         ELSE [panic |-> FALSE, slot |-> None, ret |-> R("OkErr", None), hs |-> "Fresh"]

\* is_set that tests is_none() instead of is_some()
is_set_is_none(h) ==
    LET common == slot[h[1]] IN
    [panic |-> FALSE, slot |-> common,
     ret |-> R(IF is_none(common) THEN "true" ELSE "false", None), hs |-> "Fresh"]

\* is_set: self.common.read().unwrap().is_some()
is_set(h) ==
    LET common == slot[h[1]] IN
    [panic |-> FALSE, slot |-> common,
     ret |-> R(IF is_some(common) THEN "true" ELSE "false", None), hs |-> "Fresh"]

\* join whose let-else reports "no result yet" for a handle that came back
join_none(h, r) ==
    IF r.tag = "Canceled" THEN R("Canceled", None)
    ELSE IF r.tag = "OkOk" THEN R("Some", f(r.val[1], arg[h][1]))
    ELSE R("None", None)

\* join: let Ok(other) = self.try_pull()? else { return Err(Canceled); };
\* Ok(Some(f(other, value)))        (r is what try_pull returned)
join(h, r) ==
    IF r.tag = "Canceled" THEN R("Canceled", None)
    ELSE IF r.tag = "OkOk" THEN R("Some", f(r.val[1], arg[h][1]))
    ELSE R("Canceled", None)

\* PartialEq::eq: *self.common.read().unwrap() == *other.common.read().unwrap()
eq(h, other) ==
    [panic |-> FALSE, slot |-> slot[h[1]],
     ret |-> R(IF slot[h[1]] = slot[other[1]] THEN "true" ELSE "false", None),
     hs |-> "Fresh"]

\* the operations that take a read guard; the others take the write guard
ReadOps == {"is_set", "eq"}

CriticalSection(h) ==
    IF op[h] = "try_push" THEN try_push(h)
    ELSE IF op[h] = "is_set" THEN is_set(h)
    ELSE IF op[h] = "eq" THEN eq(h, Peer(h))
    ELSE try_pull(h)

\* ---------------------------------------------------------------- steps
\* a call starts: the handle must be Fresh and owned by the caller
Begin(h, o, a) ==
    /\ hstate[h] = "Fresh"
    /\ pc[h] = "idle"
    /\ pc' = [pc EXCEPT ![h] = "lock"]
    /\ op' = [op EXCEPT ![h] = o]
    /\ arg' = [arg EXCEPT ![h] = a]
    /\ res' = [res EXCEPT ![h] = R("pending", None)]
    /\ obs' = [obs EXCEPT ![h] = [slot |-> None, peer |-> "Fresh", post |-> None,
                                  hs |-> "Fresh", f |-> FALSE,
                                  back |-> obs[h].back \/
                                           (op[h] = "try_pull" /\ res[h].tag = "OkErr")]]
    /\ UNCHANGED <<slot, rc, writer, readers, poisoned, hstate, writes, taken>>

try_push_call(h, v) == Begin(h, "try_push", Some(v)) /\ UNCHANGED wk
try_pull_call(h) == Begin(h, "try_pull", None) /\ UNCHANGED wk
join_call(h, v) == Begin(h, "join", Some(v)) /\ UNCHANGED wk
is_set_call(h) == Begin(h, "is_set", None) /\ UNCHANGED wk

\* a lock acquisition that does not wait for the guards held by others
Lock_no_wait(h) ==
    LET p == h[1] IN
    /\ pc[h] = "lock"
    /\ obs' = [obs EXCEPT ![h].slot = slot[p], ![h].peer = hstate[Peer(h)]]
    /\ IF poisoned[p]
       THEN /\ res' = [res EXCEPT ![h] = R("Panic", None)]
            /\ hstate' = [g \in DOMAIN hstate |->
                            IF g = h \/ (op[h] = "eq" /\ g = Peer(h))
                            THEN "Consumed" ELSE hstate[g]]
            /\ rc' = [rc EXCEPT ![p] = IF op[h] = "eq" THEN @ - 2 ELSE @ - 1]
            /\ pc' = [pc EXCEPT ![h] = "idle",
                                ![Peer(h)] = IF op[h] = "eq" THEN "idle" ELSE @]
            /\ UNCHANGED <<writer, readers>>
       ELSE /\ writer' = [writer EXCEPT ![p] = IF op[h] \in ReadOps THEN @ ELSE {h[2]}]
            /\ readers' = [readers EXCEPT ![p] =
                              IF op[h] \in ReadOps THEN @ \cup {h[2]} ELSE @]
            /\ pc' = [pc EXCEPT ![h] = IF op[h] = "eq" THEN "lock2" ELSE "cs"]
            /\ UNCHANGED <<res, hstate, rc>>
    /\ UNCHANGED <<slot, poisoned, op, arg, writes, taken, wk>>

\* self.common.write().unwrap() / self.common.read().unwrap(): waits for the
\* lock; on a poisoned lock unwrap() panics and the unwinding drops `self`
\* (for is_set, which borrows, the panicking caller drops its handle)
Lock(h) ==
    LET p == h[1] IN
    /\ pc[h] = "lock"
    /\ writer[p] = {}
    /\ (op[h] \notin ReadOps => readers[p] = {})
    /\ obs' = [obs EXCEPT ![h].slot = slot[p], ![h].peer = hstate[Peer(h)]]
    /\ IF poisoned[p]
       THEN /\ res' = [res EXCEPT ![h] = R("Panic", None)]
            /\ hstate' = [g \in DOMAIN hstate |->
                            IF g = h \/ (op[h] = "eq" /\ g = Peer(h))
                            THEN "Consumed" ELSE hstate[g]]
            /\ rc' = [rc EXCEPT ![p] = IF op[h] = "eq" THEN @ - 2 ELSE @ - 1]
            /\ pc' = [pc EXCEPT ![h] = "idle",
                                ![Peer(h)] = IF op[h] = "eq" THEN "idle" ELSE @]
            /\ UNCHANGED <<writer, readers>>
       ELSE /\ writer' = [writer EXCEPT ![p] = IF op[h] \in ReadOps THEN @ ELSE {h[2]}]
            /\ readers' = [readers EXCEPT ![p] =
                              IF op[h] \in ReadOps THEN @ \cup {h[2]} ELSE @]
            /\ pc' = [pc EXCEPT ![h] = IF op[h] = "eq" THEN "lock2" ELSE "cs"]
            /\ UNCHANGED <<res, hstate, rc>>
    /\ UNCHANGED <<slot, poisoned, op, arg, writes, taken, wk>>

\* the code under the guard; a failed assert! unwinds: the guard is dropped
\* while panicking (the lock is released and poisoned) and `self` is dropped
Body(h) ==
    LET p == h[1]
        o == CriticalSection(h) IN
    /\ pc[h] = "cs"
    /\ res' = [res EXCEPT ![h] = o.ret]
    /\ IF o.panic
       THEN /\ poisoned' = [poisoned EXCEPT ![p] = TRUE]
            /\ writer' = [writer EXCEPT ![p] = @ \ {h[2]}]
            /\ hstate' = [hstate EXCEPT ![h] = o.hs]
            /\ rc' = [rc EXCEPT ![p] = @ - 1]
            /\ pc' = [pc EXCEPT ![h] = "idle"]
            /\ UNCHANGED <<slot, writes, taken, obs>>
       ELSE /\ slot' = [slot EXCEPT ![p] = o.slot]
            /\ writes' = [writes EXCEPT ![p] =
                             IF op[h] = "try_push" /\ o.ret.tag = "OkOk" THEN @ + 1 ELSE @]
            /\ taken' = [taken EXCEPT ![p] = @ \/ (o.ret.tag = "OkOk" /\ op[h] # "try_push")]
            /\ obs' = [obs EXCEPT ![h].post = o.slot, ![h].hs = o.hs]
            /\ pc' = [pc EXCEPT ![h] = "unlock"]
            /\ UNCHANGED <<poisoned, writer, hstate, rc>>
    /\ UNCHANGED <<readers, op, arg, wk>>

\* a return that leaks the guard (mem::forget of the guard instead of drop)
Unlock_leak_guard(h) ==
    LET p == h[1] IN
    /\ pc[h] = "unlock"
    /\ hstate' = [hstate EXCEPT ![h] = obs[h].hs]
    /\ rc' = [rc EXCEPT ![p] = IF obs[h].hs = "Consumed" THEN @ - 1 ELSE @]
    /\ pc' = [pc EXCEPT ![h] = IF op[h] = "join" THEN "ret" ELSE "idle",
                        ![Peer(h)] = IF op[h] = "eq" THEN "idle" ELSE @]
    /\ UNCHANGED <<slot, writer, readers, poisoned, op, arg, res, obs, writes, taken, wk>>

\* the guard is dropped and the function returns: `self` is forgotten
\* (try_push), dropped (try_pull with a value) or handed back
Unlock(h) ==
    LET p == h[1] IN
    /\ pc[h] = "unlock"
    /\ writer' = [writer EXCEPT ![p] = @ \ {h[2]}]
    /\ readers' = [readers EXCEPT ![p] =
                      IF op[h] = "is_set" THEN @ \ {h[2]}
                      ELSE IF op[h] = "eq" THEN @ \ {h[2], Other(h[2])} ELSE @]
    /\ hstate' = [hstate EXCEPT ![h] = obs[h].hs]
    /\ rc' = [rc EXCEPT ![p] = IF obs[h].hs = "Consumed" THEN @ - 1 ELSE @]
    /\ pc' = [pc EXCEPT ![h] = IF op[h] = "join" THEN "ret" ELSE "idle",
                        ![Peer(h)] = IF op[h] = "eq" THEN "idle" ELSE @]
    /\ UNCHANGED <<slot, poisoned, op, arg, res, obs, writes, taken, wk>>

\* join, after try_pull returned: a handle that came back is dropped by the
\* let-else, and the closure runs only on Ok(Ok(other))
JoinRet(h) ==
    LET p == h[1] IN
    /\ pc[h] = "ret"
    /\ res' = [res EXCEPT ![h] = join(h, res[h])]
    /\ obs' = [obs EXCEPT ![h].f = (join(h, res[h]).tag = "Some")]
    /\ hstate' = [hstate EXCEPT ![h] = "Consumed"]
    /\ rc' = [rc EXCEPT ![p] = IF hstate[h] = "Fresh" THEN @ - 1 ELSE @]
    /\ pc' = [pc EXCEPT ![h] = "idle"]
    /\ UNCHANGED <<slot, writer, readers, poisoned, op, arg, writes, taken, wk>>

\* u == v (pull_test compares the two handles of a pair): the caller holds
\* both handles, so `other` is lent to the comparison until it returns
eq_call(h) ==
    /\ hstate[Peer(h)] = "Fresh"
    /\ pc[Peer(h)] = "idle"
    /\ hstate[h] = "Fresh"
    /\ pc[h] = "idle"
    /\ pc' = [pc EXCEPT ![h] = "lock", ![Peer(h)] = "lent"]
    /\ op' = [op EXCEPT ![h] = "eq"]
    /\ arg' = [arg EXCEPT ![h] = None]
    /\ res' = [res EXCEPT ![h] = R("pending", None)]
    /\ obs' = [obs EXCEPT ![h] = [slot |-> None, peer |-> "Fresh", post |-> None,
                                  hs |-> "Fresh", f |-> FALSE,
                                  back |-> obs[h].back \/
                                           (op[h] = "try_pull" /\ res[h].tag = "OkErr")]]
    /\ UNCHANGED <<slot, rc, writer, readers, poisoned, hstate, writes, taken, wk>>

\* eq, second operand: other.common.read().unwrap() while the first read
\* guard is still held (both guards live to the end of the statement)
LockOther(h) ==
    LET p == h[1] IN
    /\ pc[h] = "lock2"
    /\ writer[p] = {}
    /\ readers' = [readers EXCEPT ![p] = @ \cup {Other(h[2])}]
    /\ pc' = [pc EXCEPT ![h] = "cs"]
    /\ UNCHANGED <<slot, rc, writer, poisoned, hstate, op, arg, res, obs,
                   writes, taken, wk>>

\* drop(handle): Handshake has no Drop impl, the Arc's count goes down
Drop(h) ==
    /\ hstate[h] = "Fresh"
    /\ pc[h] = "idle"
    /\ hstate' = [hstate EXCEPT ![h] = "Dropped"]
    /\ rc' = [rc EXCEPT ![h[1]] = @ - 1]
    /\ UNCHANGED <<slot, writer, readers, poisoned, pc, op, arg, res, obs,
                   writes, taken, wk>>

Next ==
    \/ \E h \in {1} \X Sides, v \in Values : try_push_call(h, v)
    \/ \E h \in {1} \X Sides : try_pull_call(h)
    \/ \E h \in {1} \X Sides, v \in Values : join_call(h, v)
    \/ \E h \in {1} \X Sides : is_set_call(h)
    \/ \E h \in {1} \X Sides : eq_call(h)
    \/ \E h \in {1} \X Sides : Lock(h)
    \/ \E h \in {1} \X Sides : LockOther(h)
    \/ \E h \in {1} \X Sides : Body(h)
    \/ \E h \in {1} \X Sides : Unlock(h)
    \/ \E h \in {1} \X Sides : JoinRet(h)
    \/ \E h \in {1} \X Sides : Drop(h)

Spec == Init /\ [][Next]_vars

\* Fair scheduling: a thread that is inside an operation keeps running (weak
\* fairness of the steps that need nothing from the other thread), and a
\* thread waiting in write() / read() gets the lock if the lock is free again
\* and again (strong fairness). Nothing obliges a caller to start an operation.
Fairness ==
    \A h \in {1} \X Sides :
        /\ SF_vars(Lock(h))
        /\ SF_vars(LockOther(h))
        /\ WF_vars(Body(h))
        /\ WF_vars(Unlock(h))
        /\ WF_vars(JoinRet(h))

FairSpec == Init /\ [][Next]_vars /\ Fairness

\* ---------------------------------------------------------------- collision_check
\* N pairs; the left handles ("u") go to one thread and the right ones ("v")
\* to another, each in its own shuffled order; each thread joins its handles
\* one after the other with the index n as value and unwraps the result.
StressInit ==
    /\ new(1..N)
    /\ wk \in [Sides -> {[order |-> o, idx |-> 0, st |-> "run", count |-> 0] :
                            o \in Permutations(1..N)}]

Current(s) == <<wk[s].order[wk[s].idx + 1], s>>

\* .map(|(n, u)| u.join(n, |x, y| (x, y)) ...): the next handle calls join
WorkerCall(s) ==
    /\ wk[s].st = "run"
    /\ Begin(Current(s), "join", Some(wk[s].idx))
    /\ wk' = [wk EXCEPT ![s].st = "wait"]

\* ... .unwrap()).filter_map(identity): an Err panics the thread, and the
\* unwinding drops the handles still in the iterator; a Some is collected
WorkerUnwrap(s) ==
    LET h == Current(s)
        rest == {wk[s].order[i] : i \in (wk[s].idx + 2)..N} IN
    /\ wk[s].st = "wait"
    /\ pc[h] = "idle"
    /\ IF res[h].tag \in {"Canceled", "Panic"}
       THEN /\ wk' = [wk EXCEPT ![s].st = "panicked"]
            /\ hstate' = [g \in DOMAIN hstate |->
                            IF g[2] = s /\ g[1] \in rest THEN "Dropped" ELSE hstate[g]]
            /\ rc' = [p \in DOMAIN rc |-> IF p \in rest THEN rc[p] - 1 ELSE rc[p]]
       ELSE /\ wk' = [wk EXCEPT ![s].idx = @ + 1,
                                ![s].count = IF res[h].tag = "Some" THEN @ + 1 ELSE @,
                                ![s].st = IF wk[s].idx + 1 = N THEN "done" ELSE "run"]
            /\ UNCHANGED <<hstate, rc>>
    /\ UNCHANGED <<slot, writer, readers, poisoned, pc, op, arg, res, obs, writes, taken>>

StressNext ==
    \/ \E s \in Sides : WorkerCall(s)
    \/ \E s \in Sides : WorkerUnwrap(s)
    \/ \E h \in (1..N) \X Sides : Lock(h)
    \/ \E h \in (1..N) \X Sides : Body(h)
    \/ \E h \in (1..N) \X Sides : Unlock(h)
    \/ \E h \in (1..N) \X Sides : JoinRet(h)

Stress == StressInit /\ [][StressNext]_vars

\* ---------------------------------------------------------------- properties
\* the operation o on handle h has returned (or ended in a panic)
Returned(h, o) == pc[h] = "idle" /\ op[h] = o

\* C1: after try_push(x) on one handle has succeeded, try_pull() on the other
\* handle returns Ok(Ok(x)), consumes the pulling handle and leaves the slot
\* empty.
C1_RoundTrip ==
    \A h \in Handles : \A x \in Values :
        ( /\ Returned(h, "try_pull")
          /\ Returned(Peer(h), "try_push") /\ res[Peer(h)].tag = "OkOk"
          /\ arg[Peer(h)] = Some(x)
          /\ obs[h].slot = Some(x) /\ obs[h].peer # "Fresh" )
        => ( /\ res[h] = R("OkOk", Some(x))
             /\ hstate[h] = "Consumed"
             /\ obs[h].post = None )

\* C2: when both handles of a pair have called join and both calls have
\* returned, exactly one returned Ok(Some(_)) and the other Ok(None).
C2_JoinDeterminism ==
    \A p \in Pairs :
        (\A s \in Sides : Returned(<<p, s>>, "join"))
        => \E s \in Sides : /\ res[<<p, s>>].tag = "Some"
                            /\ res[<<p, Other(s)>>].tag = "None"

\* C3: a join that finds the slot empty with the peer alive deposits its own
\* value and returns Ok(None); a join that finds the peer's value p takes it,
\* leaves the slot empty and returns Ok(Some(f(p, own))).
C3_JoinDepositOrCombine ==
    \A h \in Handles :
        Returned(h, "join")
        => /\ (obs[h].slot = None /\ obs[h].peer = "Fresh")
              => (res[h] = R("None", None) /\ obs[h].post = arg[h])
           /\ is_some(obs[h].slot)
              => ( /\ res[h] = R("Some", f(obs[h].slot[1], arg[h][1]))
                   /\ obs[h].post = None )

\* C4: a try_pull that runs after the peer was dropped without a deposit
\* returns Err(Canceled).
C4_PullCanceled ==
    \A h \in Handles :
        (Returned(h, "try_pull") /\ obs[h].peer = "Dropped")
        => res[h] = R("Canceled", None)

\* C5: a join that runs after the peer was dropped without a deposit returns
\* Err(Canceled), not Ok(None), and the combining function is not invoked.
C5_JoinCanceled ==
    \A h \in Handles :
        (Returned(h, "join") /\ obs[h].peer = "Dropped")
        => (res[h] = R("Canceled", None) /\ ~obs[h].f)

C5_Witness ==
    \E h \in Handles :
        /\ Returned(h, "join") /\ obs[h].peer = "Dropped"
        /\ hstate[Peer(h)] = "Dropped" /\ op[Peer(h)] # "try_push"
        /\ res[h].tag = "Canceled"

\* C6: a try_pull or join returns Err(Canceled) only if, when it ran, the peer
\* handle was already released and the slot held no value; never while the
\* peer is Fresh.
C6_CanceledOnlyWhenPeerGone ==
    \A h \in Handles :
        (pc[h] = "idle" /\ op[h] \in {"try_pull", "join"} /\ res[h].tag = "Canceled")
        => (obs[h].peer # "Fresh" /\ obs[h].slot = None)

\* C7: in collision_check no join returns Canceled or panics, and when both
\* workers have ended both ran to the end and collected N results in total.
C7_StressTotal ==
    /\ \A h \in Handles : res[h].tag \notin {"Canceled", "Panic"}
    /\ (\A s \in Sides : wk[s].st \in {"done", "panicked"})
       => ( /\ \A s \in Sides : wk[s].st = "done"
            /\ wk["u"].count + wk["v"].count = N )

\* C8: at most one value is ever written to the slot (so a value in the slot
\* is never overwritten by a later deposit), and once a value has been taken
\* the slot is never full again.
C8_ExactlyOnceDeposit ==
    \A p \in Pairs :
        /\ writes[p] <= 1
        /\ taken[p] => slot[p] = None

\* a second deposit was attempted on the full slot and the first value stays
C8_Witness ==
    \E h \in Handles :
        /\ Returned(h, "try_push") /\ is_some(obs[h].slot)
        /\ Returned(Peer(h), "try_push") /\ res[Peer(h)].tag = "OkOk"
        /\ arg[h] # arg[Peer(h)]
        /\ writes[h[1]] = 1
        /\ slot[h[1]] = arg[Peer(h)]

\* C9: after the peer's try_push succeeded, try_push(v) returns
\* Ok(Err((handle, v))): the value and the still usable handle come back,
\* without a panic, and the value in the slot is unchanged.
C9_PushOnFullRecoverable ==
    \A h \in Handles :
        ( /\ Returned(h, "try_push")
          /\ Returned(Peer(h), "try_push") /\ res[Peer(h)].tag = "OkOk"
          /\ is_some(obs[h].slot) )
        => ( /\ res[h] = R("OkErr", arg[h])
             /\ obs[h].hs = "Fresh"
             /\ slot[h[1]] = obs[h].slot )

C11_PushCanceled ==
    \A h \in Handles :
        (Returned(h, "try_push") /\ obs[h].peer = "Dropped")
        => ( /\ res[h] = R("Err", arg[h])
             /\ slot[h[1]] = None )

\* C12: a try_pull that finds the slot empty with the peer alive returns
\* Ok(Err(handle)): the handle is still Fresh and the slot still empty; and a
\* later try_pull on a handle that came back, after the peer pushed x,
\* returns Ok(Ok(x)).
C12_PullHandsBackThenRetrieves ==
    \A h \in Handles :
        /\ (Returned(h, "try_pull") /\ obs[h].slot = None /\ obs[h].peer = "Fresh")
           => ( /\ res[h] = R("OkErr", None)
                /\ obs[h].hs = "Fresh"
                /\ obs[h].post = None )
        /\ ( /\ Returned(h, "try_pull") /\ obs[h].back
             /\ Returned(Peer(h), "try_push") /\ res[Peer(h)].tag = "OkOk"
             /\ is_some(obs[h].slot) )
           => res[h] = R("OkOk", arg[Peer(h)])

\* C13: try_pull never ends in a panic: it returns the value (and the handle
\* is consumed), or the handle, or Canceled; on a slot that holds a value
\* its assertion holds.
C13_PullNeverPanics ==
    \A h \in Handles :
        Returned(h, "try_pull")
        => ( /\ res[h].tag \in {"OkOk", "OkErr", "Canceled"}
             /\ res[h].tag = "OkOk" => hstate[h] = "Consumed" )

\* C14: the Arc's count equals the number of handles not yet consumed or
\* dropped, so that once both handles are released the count is 0: the slot
\* is destroyed and a value still in it is dropped.
C14_SlotLifetime ==
    \A p \in Pairs :
        rc[p] = Cardinality({s \in Sides : hstate[<<p, s>>] = "Fresh"})

C16_IsSetSnapshot ==
    /\ [](\A h \in {1} \X Sides :
            Returned(h, "is_set")
            => ( /\ res[h].tag = IF is_some(obs[h].slot) THEN "true" ELSE "false"
                 /\ writes[h[1]] = 0 => res[h].tag = "false"
                 /\ obs[h].post = obs[h].slot ))
    /\ [][\A h \in {1} \X Sides :
            (op[h] = "is_set" /\ pc[h] \in {"lock", "cs", "unlock"} /\ pc'[h] # pc[h])
            => (slot' = slot /\ hstate' = hstate /\ rc' = rc)]_vars

\* is_set has reported true on the handle whose peer deposited
C16_Witness ==
    \E h \in Handles :
        /\ Returned(h, "is_set") /\ res[h].tag = "true"
        /\ hstate[h] = "Fresh" /\ is_some(slot[h[1]])

\* the handle holds the write guard / a read guard of its slot
InWrite(h) == pc[h] \in {"cs", "unlock"} /\ op[h] \notin ReadOps
InRead(h) == \/ pc[h] \in {"cs", "unlock"} /\ op[h] \in ReadOps
             \/ pc[h] = "lock2"

\* C17: at most one of try_push, try_pull, join is inside the slot's critical
\* section at a time, and no reader (is_set, eq) is inside it together with
\* a writer.
C17_MutualExclusion ==
    \A p \in Pairs :
        LET W == {s \in Sides : InWrite(<<p, s>>)}
            Rd == {s \in Sides : InRead(<<p, s>>)} IN
        /\ Cardinality(W) <= 1
        /\ W # {} => Rd = {}

\* one handle is inside the critical section while the other waits for it
C17_Witness ==
    \E h \in Handles :
        /\ InWrite(h)
        /\ pc[Peer(h)] = "lock"

\* C19: when an operation on a handle has ended, normally or by a panic
\* inside its critical section, the slot's lock is released and not
\* poisoned.
C19_LockLeftClean ==
    \A h \in Handles :
        (pc[h] = "idle" /\ op[h] # "none")
        => ( /\ h[2] \notin writer[h[1]]
             /\ h[2] \notin readers[h[1]]
             /\ ~poisoned[h[1]] )

====
